---- MODULE Spec2Model ----
(***************************************************************************)
(* A model of fedora/client/openidcli.py: the session-id cache             *)
(* (_get_id, _set_id, _del_id behind the session_id and openid_session_id  *)
(* properties), the dispatcher (send_request, the requires_login decorator *)
(* and the _authed_post/_authed_get methods it wraps) and login.           *)
(*                                                                         *)
(* Reading conventions.  Every statement is given the meaning Python gives *)
(* it: a misspelt method of a library object is an AttributeError, a call  *)
(* with a keyword the callee does not take is a TypeError, an unbound      *)
(* local is a NameError, a missing dict key is a KeyError.  `self.session' *)
(* is the requests session of the client (the transport); an `if' whose    *)
(* body is only a comment does nothing.                                    *)
(*                                                                         *)
(* The server is the environment: every response is drawn from Responses.  *)
(* The client is used sequentially: no operation starts while a login is   *)
(* in progress.                                                            *)
(***************************************************************************)
EXTENDS Integers, Sequences, FiniteSets, TLC

\* ------------------------------------------------------------ bounds
\* Number of distinct opaque session tokens a caller may store.
NumTokens == 2
\* Largest retry count a client is constructed with.
MaxRetries == 2

Tokens == {"tok" \o ToString(i) : i \in 1..NumTokens}

\* ------------------------------------------------------ Python values
\* A value held in _session_id_map or returned by a call: None, a str, or a
\* row tuple (username, base_url, session_id) fetched from sqlite.
None == [tag |-> "None", str |-> "", row |-> <<>>]
Str(s) == [tag |-> "str", str |-> s, row |-> <<>>]
Row(u, b, t) == [tag |-> "row", str |-> "", row |-> <<u, b, t>>]

\* Python truthiness of such a value: '' and None are falsy, a non-empty str
\* and a 3-tuple are truthy.
Truthy(v) == (v.tag = "str" /\ v.str # "") \/ v.tag = "row"

\* str.startswith
startswith(s, prefix) ==
    Len(s) >= Len(prefix) /\ SubSeq(s, 1, Len(prefix)) = prefix

\* ------------------------------------------------------ configuration
SERVICE_URL == "https://svc.example/"
IDP_URL == "https://idp.example/openid/"
\* The base_url bound by the openid_session_id property.
FAS_OPENID == "FAS_OPENID"
\* The login url of the service: urljoin(self.base_url, '/login').
LOGIN_URL == "https://svc.example/login"
\* A second service a client may be constructed against.
OTHER_URL == "https://other.example/"
BaseUrls == {SERVICE_URL, OTHER_URL}
\* Cookie names: session_name and openid_session_name.
SESSION_NAME == "tg-visit"
OPENID_SESSION_NAME == "FAS_OPENID"

\* self.username or '': None and '' are the same to the three accessors.
Usernames == {"", "alice"}

\* self.retries = retries: None and 0 both stand for no retry, a negative
\* number for retrying for ever.
Retries == -1..MaxRetries

\* The base_url argument of each property: None for session_id.
Kinds == {"session_id", "openid_session_id"}
\* Both properties bound to the same base_url: one slot for the two kinds.
KindBaseUrl_one_slot(kind) == FAS_OPENID
KindBaseUrl(kind) == IF kind = "session_id" THEN "" ELSE FAS_OPENID

\* ------------------------------------------------------ sqlite table
\* sessions(username, base_url, session_id), primary key (username, base_url):
\* a function from the primary keys present to the session_id.
PrimaryKeys == {<<u, b>> : u \in Usernames \ {""}, b \in {SERVICE_URL, FAS_OPENID}}
Tables == UNION {[pk -> Tokens] : pk \in SUBSET PrimaryKeys}
\* What the file may hold when the client is constructed: nothing, or a row
\* for each key left by an earlier run.
InitialTables ==
    { [pk \in {} |-> ""],
      [pk \in PrimaryKeys |-> IF pk[2] = FAS_OPENID THEN "tok2" ELSE "tok1"] }

\* Attributes of sqlite3.Cursor, and the names bound inside _set_id.
CursorAttrs == {"execute", "executemany", "executescript", "fetchone",
                "fetchmany", "fetchall", "close"}
set_id_Names == {"self", "session_id", "base_url", "username",
                 "session_id_key", "cursor"}

VARIABLES
    config,          \* the client's configuration
    session_id_map,  \* self._session_id_map: key -> value, for the keys present
    db,              \* the sessions table as this connection sees it
    disk             \* the sessions table as committed to the file

\* ------------------------------------------------------ the accessors
\* '{}:{}'.format(base_url, username)
session_id_key(base_url, username) == base_url \o ":" \o username

\* defaultdict(str).__getitem__: a missing key is inserted with ''.
MapTouch(m, k) == IF k \in DOMAIN m THEN m ELSE m @@ (k :> Str(""))

\* _get_id: [map, result]
get_id(m, dbv, cfg, base_url_arg) ==
    LET base_url == IF base_url_arg # "" THEN base_url_arg ELSE cfg.base_url
        username == cfg.username
        key == session_id_key(base_url, username)
        m1 == MapTouch(m, key)
    IN  IF Truthy(m1[key])
        THEN [map |-> m1, result |-> m1[key]]
        ELSE LET m2 == IF username # "" /\ cfg.cache_session
                          /\ <<username, base_url>> \in DOMAIN dbv
                       THEN [m1 EXCEPT ![key] =
                                Row(username, base_url, dbv[<<username, base_url>>])]
                       ELSE m1
             IN  [map |-> m2, result |-> m2[key]]

\* insert into sessions ...; an existing primary key is an IntegrityError,
\* answered by update sessions set session_id = ...
Upsert(dbv, pk, session_id) ==
    IF pk \in DOMAIN dbv
    THEN [dbv EXCEPT ![pk] = session_id]
    ELSE dbv @@ (pk :> session_id)

\* _set_id without the test for a username: the table is written for the
\* anonymous user too.
set_id_anonymous_persisted(m, dbv, dsk, cfg, session_id, base_url_arg) ==
    LET base_url == IF base_url_arg # "" THEN base_url_arg ELSE cfg.base_url
        username == cfg.username
        key == session_id_key(base_url, username)
        m1 == [k \in DOMAIN m \cup {key} |->
                  IF k = key THEN Str(session_id) ELSE m[k]]
    IN  IF cfg.cache_session
        THEN IF "exectue" \notin CursorAttrs
             THEN [map |-> m1, db |-> dbv, disk |-> dsk, exc |-> "AttributeError"]
             ELSE LET dbv1 == Upsert(dbv, <<username, base_url>>, session_id)
                  IN  IF "db" \notin set_id_Names
                      THEN [map |-> m1, db |-> dbv1, disk |-> dsk,
                            exc |-> "NameError"]
                      ELSE [map |-> m1, db |-> dbv1, disk |-> dbv1, exc |-> ""]
        ELSE [map |-> m1, db |-> dbv, disk |-> dsk, exc |-> ""]

\* _set_id: [map, db, disk, exc]
set_id(m, dbv, dsk, cfg, session_id, base_url_arg) ==
    LET base_url == IF base_url_arg # "" THEN base_url_arg ELSE cfg.base_url
        username == cfg.username
        key == session_id_key(base_url, username)
        m1 == [k \in DOMAIN m \cup {key} |->
                  IF k = key THEN Str(session_id) ELSE m[k]]
    IN  IF username # "" /\ cfg.cache_session
        THEN IF "exectue" \notin CursorAttrs
             THEN [map |-> m1, db |-> dbv, disk |-> dsk, exc |-> "AttributeError"]
             ELSE LET dbv1 == Upsert(dbv, <<username, base_url>>, session_id)
                  IN  IF "db" \notin set_id_Names
                      THEN [map |-> m1, db |-> dbv1, disk |-> dsk,
                            exc |-> "NameError"]
                      ELSE [map |-> m1, db |-> dbv1, disk |-> dbv1, exc |-> ""]
        ELSE [map |-> m1, db |-> dbv, disk |-> dsk, exc |-> ""]

\* _del_id: [map, db, exc]
del_id(m, dbv, cfg, base_url_arg) ==
    LET base_url == IF base_url_arg # "" THEN base_url_arg ELSE cfg.base_url
        username == cfg.username
        key == session_id_key(base_url, username)
    IN  IF key \notin DOMAIN m
        THEN [map |-> m, db |-> dbv, exc |-> "KeyError"]
        ELSE LET m1 == [k \in DOMAIN m \ {key} |-> m[k]]
             IN  IF username # "" /\ cfg.cache_session
                 THEN [map |-> m1,
                       db |-> [pk \in DOMAIN dbv \ {<<username, base_url>>} |-> dbv[pk]],
                       exc |-> ""]
                 ELSE [map |-> m1, db |-> dbv, exc |-> ""]

\* ------------------------------------------------------ HTML pages
\* An <input>: its attributes, a function from the attribute names present.
\* A <form>: its attributes and its <input> children in document order.
\* A response: ok (status below 400, which is the truth value requests gives a
\* Response), whether the text holds the marker
\* '<title>OpenID transaction in progress</title>', the forms of the text,
\* the final url, and the cookies it sets in the session's jar.
Hidden(n, v) == [type |-> "hidden", name |-> n, value |-> v]
Submit(v) == [type |-> "submit", value |-> v]
Decision(n, v) == [type |-> "submit", name |-> n, value |-> v]
Form(action, inputs) == [attrs |-> [action |-> action], inputs |-> inputs]
FormNoAction(inputs) == [attrs |-> [method |-> "post"], inputs |-> inputs]

NoCookies == [c \in {} |-> ""]
Page(ok, marker, forms, url, set_cookie) ==
    [ok |-> ok, marker |-> marker, forms |-> forms, url |-> url,
     set_cookie |-> set_cookie]

\* The service's page that redirects into the OpenID flow.
ServiceRedirectForm ==
    Form(IDP_URL, <<Hidden("openid.mode", "checkid_setup"),
                    Hidden("openid.return_to", SERVICE_URL), Submit("Continue")>>)
\* The provider's login form: the text inputs carry no value attribute.
ProviderLoginForm ==
    Form("/login", <<[type |-> "text", name |-> "username"],
                     [type |-> "password", name |-> "password"],
                     Hidden("csrf", "c1"), Submit("Log in")>>)
\* The provider's consent form.
ConsentForm ==
    Form("/openid/allow", <<Hidden("openid.mode", "id_res"),
                            Decision("decided_allow", "Allow"),
                            Decision("decided_deny", "Deny")>>)
ConsentNoDenyForm ==
    Form("/openid/allow", <<Hidden("openid.mode", "id_res"),
                            Decision("decided_allow", "Allow")>>)
\* The provider's page that posts the assertion back to the service.
CallbackForm ==
    Form("https://svc.example/_openid_handler",
         <<Hidden("openid.mode", "id_res"), Hidden("openid.sig", "s1"),
           Submit("Continue")>>)

\* The pages the server answers with.
PlainPage == Page(TRUE, FALSE, <<>>, SERVICE_URL, NoCookies)
FinalPage == Page(TRUE, FALSE, <<>>, SERVICE_URL, (SESSION_NAME :> "tok1"))
RedirectPage == Page(TRUE, TRUE, <<ServiceRedirectForm>>, LOGIN_URL, NoCookies)
\* An error status whose text holds the marker and no form.
ErrorPage == Page(FALSE, TRUE, <<>>, LOGIN_URL, NoCookies)
ProviderLoginPage == Page(TRUE, FALSE, <<ProviderLoginForm>>, IDP_URL, NoCookies)
ConsentPage ==
    Page(TRUE, FALSE, <<ConsentForm>>, IDP_URL, (OPENID_SESSION_NAME :> "tok2"))
ConsentNoDenyPage == Page(TRUE, FALSE, <<ConsentNoDenyForm>>, IDP_URL, NoCookies)
CallbackPage == Page(TRUE, FALSE, <<CallbackForm>>, IDP_URL, NoCookies)
\* A form without an action, and a form whose input has neither type nor name.
NoActionPage ==
    Page(TRUE, TRUE, <<FormNoAction(<<Hidden("openid.mode", "checkid_setup")>>)>>,
         LOGIN_URL, NoCookies)
BadInputPage ==
    Page(TRUE, TRUE, <<Form(IDP_URL, <<[value |-> "checkid_setup"]>>)>>,
         LOGIN_URL, NoCookies)

Responses ==
    { PlainPage, FinalPage, RedirectPage, ErrorPage, ProviderLoginPage,
      ConsentPage, ConsentNoDenyPage, CallbackPage, NoActionPage, BadInputPage }

\* ------------------------------------------------------ form parsing
EmptyDict == [n \in {} |-> None]
DictSet(d, k, v) == [n \in DOMAIN d \cup {k} |-> IF n = k THEN v ELSE d[n]]
DictDel(d, k) == [n \in DOMAIN d \ {k} |-> d[n]]

\* The loop of _parse_service_form over the <input> children: [exc, inputs].
RECURSIVE service_inputs(_, _)
service_inputs(children, inputs) ==
    IF children = <<>>
    THEN [exc |-> "", inputs |-> inputs]
    ELSE LET child == Head(children)
         IN  IF "type" \notin DOMAIN child
             THEN [exc |-> "KeyError", inputs |-> inputs]
             ELSE IF child["type"] = "submit"
             THEN service_inputs(Tail(children), inputs)
             ELSE IF "value" \notin DOMAIN child \/ "name" \notin DOMAIN child
             THEN [exc |-> "KeyError", inputs |-> inputs]
             ELSE service_inputs(Tail(children),
                                 DictSet(inputs, child["name"], Str(child["value"])))

\* The loop of _parse_openid_login_form: [exc, inputs].
RECURSIVE openid_inputs(_, _)
openid_inputs(children, inputs) ==
    IF children = <<>>
    THEN [exc |-> "", inputs |-> inputs]
    ELSE LET child == Head(children)
             value == IF "value" \in DOMAIN child THEN Str(child["value"]) ELSE None
         IN  IF "type" \in DOMAIN child /\ child["type"] = "submit"
                /\ ~("name" \in DOMAIN child /\ startswith(child["name"], "decided_"))
             THEN openid_inputs(Tail(children), inputs)
             ELSE IF "name" \notin DOMAIN child
             THEN [exc |-> "KeyError", inputs |-> inputs]
             ELSE openid_inputs(Tail(children), DictSet(inputs, child["name"], value))

\* parsed.form is the first <form> of the text, None when there is none;
\* the action is read after the loop: [exc, action, inputs].
parse_form(response, loop) ==
    IF response.forms = <<>>
    THEN [exc |-> "AttributeError", action |-> "", inputs |-> EmptyDict]
    ELSE LET form == Head(response.forms)
         IN  IF loop.exc # ""
             THEN [exc |-> loop.exc, action |-> "", inputs |-> EmptyDict]
             ELSE IF "action" \notin DOMAIN form.attrs
             THEN [exc |-> "KeyError", action |-> "", inputs |-> EmptyDict]
             ELSE [exc |-> "", action |-> form.attrs["action"],
                   inputs |-> loop.inputs]

FirstInputs(response) ==
    IF response.forms = <<>> THEN <<>> ELSE Head(response.forms).inputs

parse_service_form(response) ==
    parse_form(response, service_inputs(FirstInputs(response), EmptyDict))

parse_openid_login_form(response) ==
    parse_form(response, openid_inputs(FirstInputs(response), EmptyDict))

\* ------------------------------------------------------ urls
\* The index of the first ch in s at or after i, 0 when there is none.
RECURSIVE find(_, _, _)
find(s, ch, i) ==
    IF i > Len(s) THEN 0
    ELSE IF SubSeq(s, i, i) = ch THEN i
    ELSE find(s, ch, i + 1)

\* The index of the last ch in s at or before i, 0 when there is none.
RECURSIVE rfind(_, _, _)
rfind(s, ch, i) ==
    IF i < 1 THEN 0
    ELSE IF SubSeq(s, i, i) = ch THEN i
    ELSE rfind(s, ch, i - 1)

HasScheme(url) == startswith(url, "https://") \/ startswith(url, "http://")

\* scheme://host of an absolute url.
Origin(url) ==
    LET start == find(url, ":", 1) + 3
        slash == find(url, "/", start)
    IN  IF slash = 0 THEN url ELSE SubSeq(url, 1, slash - 1)

\* urljoin(base, url) for an absolute url, a path that starts with '/', and a
\* path relative to the directory of base.
urljoin(base, url) ==
    IF url = "" THEN base
    ELSE IF HasScheme(url) THEN url
    ELSE IF startswith(url, "/") THEN Origin(base) \o url
    ELSE LET dir == rfind(base, "/", Len(base))
         IN  IF dir <= Len(Origin(base))
             THEN Origin(base) \o "/" \o url
             ELSE SubSeq(base, 1, dir) \o url

absolute_url(beginning, end) ==
    IF ~startswith(end, beginning) THEN urljoin(beginning, end) ELSE end

\* ------------------------------------------------------ transport
VARIABLES
    jar,    \* the cookies the requests session holds
    reqs,   \* the requests the current (or last) call handed to the transport
    resps,  \* the responses to them, in order
    pc,     \* where login stands: "idle" when no login is in progress
    lv,     \* login's local variables between two requests
    call    \* the current (or last) call and how it ended

vars == <<config, session_id_map, db, disk, jar, reqs, resps, pc, lv, call>>

\* session.get(url, ...) / session.post(url, data, ...): the code passes no
\* cookies argument in any call.
Request(verb, url, data) ==
    [verb |-> verb, url |-> url, data |-> data, cookies |-> EmptyDict]

\* requests prepares a request only for a url with a scheme; for any other it
\* raises MissingSchema and nothing is sent.
transport_accepts(url) == HasScheme(url)

\* The session keeps the cookies a response sets.
Receive(j, response) ==
    [c \in DOMAIN j \cup DOMAIN response.set_cookie |->
        IF c \in DOMAIN response.set_cookie THEN response.set_cookie[c] ELSE j[c]]

\* ------------------------------------------------------ dispatcher
\* The decorator: bool(output) is output.ok.
requires_login(output) ==
    IF output.ok /\ output.marker
    THEN [exc |-> "LoginRequiredException", exc_url |-> output.url, returned |-> FALSE]
    ELSE [exc |-> "", exc_url |-> "", returned |-> TRUE]

\* The keyword parameters of _authed_post and _authed_get.
AuthedParams == {"params", "data"}

\* authed_call with a second attempt when the marker is found: the request is
\* handed to the transport again before the exception is raised.
authed_call_retries_once(verb, url, kwargs, response) ==
    IF ~(kwargs \subseteq AuthedParams)
    THEN [sent |-> <<>>, exc |-> "TypeError", exc_url |-> "", returned |-> FALSE]
    ELSE IF ~transport_accepts(url)
    THEN [sent |-> <<>>, exc |-> "MissingSchema", exc_url |-> "", returned |-> FALSE]
    ELSE LET checked == requires_login(response)
         IN  [sent |-> IF checked.exc # ""
                       THEN <<Request(verb, url, EmptyDict), Request(verb, url, EmptyDict)>>
                       ELSE <<Request(verb, url, EmptyDict)>>,
              exc |-> checked.exc,
              exc_url |-> checked.exc_url, returned |-> checked.returned]

\* A call of the decorated _authed_post / _authed_get with the keyword
\* arguments kwargs, answered by response: [sent, exc, exc_url, returned].
authed_call(verb, url, kwargs, response) ==
    IF ~(kwargs \subseteq AuthedParams)
    THEN [sent |-> <<>>, exc |-> "TypeError", exc_url |-> "", returned |-> FALSE]
    ELSE IF ~transport_accepts(url)
    THEN [sent |-> <<>>, exc |-> "MissingSchema", exc_url |-> "", returned |-> FALSE]
    ELSE LET checked == requires_login(response)
         IN  [sent |-> <<Request(verb, url, EmptyDict)>>, exc |-> checked.exc,
              exc_url |-> checked.exc_url, returned |-> checked.returned]

\* The keys of self._authed_verb_dispatcher.
DispatcherKeys == {<<FALSE, "POST">>, <<FALSE, "GET">>, <<TRUE, "POST">>, <<TRUE, "GET">>}

\* send_request(method, auth, verb, **kwargs): [map, sent, exc, exc_url].
\* It has no return statement: the value of every call that ends is None.
send_request(m, dbv, cfg, method, auth, verb, kwargs, response) ==
    IF auth
    THEN LET sid == get_id(m, dbv, cfg, KindBaseUrl("session_id"))
             oid == get_id(sid.map, dbv, cfg, KindBaseUrl("openid_session_id"))
         IN  IF <<auth, verb>> \notin DispatcherKeys
             THEN [map |-> oid.map, sent |-> <<>>,
                   exc |-> "Exception: Unknown HTTP verb", exc_url |-> ""]
             ELSE LET out == authed_call(verb, method, kwargs \cup {"auth_params"},
                                         response)
                  IN  IF out.exc = "LoginRequiredException"
                      THEN [map |-> oid.map, sent |-> out.sent,
                            exc |-> "AuthError", exc_url |-> ""]
                      ELSE [map |-> oid.map, sent |-> out.sent,
                            exc |-> out.exc, exc_url |-> out.exc_url]
    ELSE [map |-> m, sent |-> <<>>, exc |-> "", exc_url |-> ""]

\* ------------------------------------------------------ login
\* login(username, password): the arguments a caller may pass.
LoginUsernames == {"alice"}
Passwords == {"secret"}

NoLocals ==
    [openid_url |-> "", action |-> "", data |-> EmptyDict,
     username |-> "", password |-> ""]

\* How a stretch of login between two requests ends: at the next request
\* (pc), by returning (pc = "idle", returns = TRUE) or by an exception.
Raise(exc) == [pc |-> "idle", exc |-> exc, lv |-> NoLocals, returns |-> FALSE]
Goto(next, locals) == [pc |-> next, exc |-> "", lv |-> locals, returns |-> FALSE]

\* The consent POST without the del: the form's fields are posted as parsed.
login_consent_data_keeps_deny(locals) ==
    IF "decided_deny" \notin DOMAIN locals.data
    THEN Raise("KeyError")
    ELSE Goto("post_consent", locals)

\* del(data['decided_deny']), then on to the consent POST.
login_consent_data(locals) ==
    IF "decided_deny" \notin DOMAIN locals.data
    THEN Raise("KeyError")
    ELSE Goto("post_consent",
              [locals EXCEPT !.data = DictDel(locals.data, "decided_deny")])

\* login_get without the test for the marker: the form of any page is followed.
login_get_no_marker_test(response, username, password) ==
    LET form == parse_service_form(response)
    IN  IF form.exc # ""
        THEN Raise(form.exc)
        ELSE Goto("post_openid",
                  [openid_url |-> form.action, action |-> "",
                   data |-> form.inputs, username |-> username,
                   password |-> password])

\* After the GET of login_url: return when the marker is absent, else parse
\* the service's form.
login_get(response, username, password) ==
    IF ~response.marker
    THEN [pc |-> "idle", exc |-> "", lv |-> NoLocals, returns |-> TRUE]
    ELSE LET form == parse_service_form(response)
         IN  IF form.exc # ""
             THEN Raise(form.exc)
             ELSE Goto("post_openid",
                       [openid_url |-> form.action, action |-> "",
                        data |-> form.inputs, username |-> username,
                        password |-> password])

\* login_openid without the test for a username field: the credentials are
\* posted to whatever form the provider answered with.
login_openid_always_credentials(response, locals) ==
    LET form == parse_openid_login_form(response)
    IN  IF form.exc # ""
        THEN Raise(form.exc)
        ELSE Goto("post_credentials",
                  [locals EXCEPT
                      !.action = absolute_url(locals.openid_url, form.action),
                      !.data = DictSet(DictSet(form.inputs, "username",
                                               Str(locals.username)),
                                       "password", Str(locals.password))])

\* After the POST to the provider: parse its form; with a username field, fill in
\* the credentials and post them, else go on with this form as the consent form.
login_openid(response, locals) ==
    LET form == parse_openid_login_form(response)
    IN  IF form.exc # ""
        THEN Raise(form.exc)
        ELSE LET action == absolute_url(locals.openid_url, form.action)
             IN  IF "username" \in DOMAIN form.inputs
                 THEN Goto("post_credentials",
                           [locals EXCEPT
                               !.action = action,
                               !.data = DictSet(DictSet(form.inputs, "username",
                                                        Str(locals.username)),
                                                "password", Str(locals.password))])
                 ELSE login_consent_data(
                          [locals EXCEPT !.action = action, !.data = form.inputs])

\* After the POST of the credentials: parse the provider's next form.
login_credentials(response, locals) ==
    LET form == parse_openid_login_form(response)
    IN  IF form.exc # ""
        THEN Raise(form.exc)
        ELSE login_consent_data(
                 [locals EXCEPT
                     !.action = absolute_url(locals.openid_url, form.action),
                     !.data = form.inputs])

\* After the consent POST: parse the form that leads back to the service.
login_consent(response, locals) ==
    LET form == parse_service_form(response)
    IN  IF form.exc # ""
        THEN Raise(form.exc)
        ELSE Goto("post_callback",
                  [locals EXCEPT !.action = form.action, !.data = form.inputs])

\* After the POST to the service: return response.
login_callback(response, locals) ==
    [pc |-> "idle", exc |-> "", lv |-> NoLocals, returns |-> TRUE]

\* ------------------------------------------------------ calls
\* The current or last call: op, its arguments (kind: the property accessed;
\* args: the token set, or login's username and password), the exception it ended with
\* ("" for none), the url a LoginRequiredException names, the value returned
\* and, when a response was returned, its index in resps (0 otherwise).
Call(op, kind, auth, verb, args, exc, exc_url, ret, ret_resp) ==
    [op |-> op, kind |-> kind, auth |-> auth, verb |-> verb, args |-> args,
     exc |-> exc, exc_url |-> exc_url, ret |-> ret, ret_resp |-> ret_resp]

\* ------------------------------------------------------ construction
\* What __init__ finds on the file system: whether the session directory is
\* there, whether makedirs succeeds, whether the session file is there, whether
\* sqlite3.connect succeeds and whether the create table statement does.
Env(name, isdir, makedirs_ok, exists, connect_ok, create_ok) ==
    [name |-> name, isdir |-> isdir, makedirs_ok |-> makedirs_ok,
     exists |-> exists, connect_ok |-> connect_ok, create_ok |-> create_ok]

Environments ==
    { Env("new_dir", FALSE, TRUE, FALSE, TRUE, TRUE),
      Env("existing_file", TRUE, TRUE, TRUE, TRUE, TRUE),
      Env("makedirs_fails", FALSE, FALSE, FALSE, FALSE, FALSE),
      Env("new_file_connect_fails", TRUE, TRUE, FALSE, FALSE, FALSE),
      Env("create_table_fails", TRUE, TRUE, FALSE, TRUE, FALSE),
      Env("existing_file_connect_fails", TRUE, TRUE, TRUE, FALSE, TRUE) }

\* The rows of the session file when the client is constructed: those an
\* earlier run left in a file that is there, none in a file just created.
FileContents(env) ==
    IF env.exists THEN InitialTables ELSE {[pk \in {} |-> ""]}

\* _initialize_session_cache: [db, exc], db FALSE for the None it returns.
\* log.warning returns None, so the .format applied to its result in the
\* handler of OSError is an AttributeError raised inside the handler; the
\* connect of a file that is not there yet is outside any try.
initialize_session_cache(env) ==
    IF ~env.isdir /\ ~env.makedirs_ok
    THEN [db |-> FALSE, exc |-> "AttributeError"]
    ELSE IF ~env.exists
         THEN IF ~env.connect_ok THEN [db |-> FALSE, exc |-> "OperationalError"]
              ELSE IF ~env.create_ok THEN [db |-> FALSE, exc |-> ""]
              ELSE [db |-> TRUE, exc |-> ""]
         ELSE IF ~env.connect_ok THEN [db |-> FALSE, exc |-> ""]
              ELSE [db |-> TRUE, exc |-> ""]

\* The part of __init__ that settles cache_session: [cache_session, exc].
init_cache_session(cache_session, env) ==
    IF cache_session
    THEN LET out == initialize_session_cache(env)
         IN  [cache_session |-> out.db, exc |-> out.exc]
    ELSE [cache_session |-> FALSE, exc |-> ""]

\* The arguments of __init__: base_url, username, cache_session and retries;
\* self.login_url = login_url or urljoin(self.base_url, '/login').
Configs(base_urls, retries) ==
    { [base_url |-> b, login_url |-> urljoin(b, "/login"), username |-> u,
       cache_session |-> c, retries |-> r] :
        b \in base_urls, u \in Usernames, c \in BOOLEAN, r \in retries }

Verbs == {"GET", "POST", "PUT"}
\* send_request's method, a url fragment, and the url test() builds with urljoin.
Methods == {"/api/method"}
Urls == {"https://svc.example/api/method"}
\* Keyword arguments a caller passes through send_request's **kwargs.
Kwargs == {{}, {"data"}}

\* The state __init__ leaves: the client, or, when it raised, no client
\* (pc = "failed": nothing can be called).
Constructed(base_urls, retries) ==
    \E args \in Configs(base_urls, retries), env \in Environments :
       LET out == init_cache_session(args.cache_session, env)
       IN  /\ config = [args EXCEPT !.cache_session = out.cache_session]
           /\ session_id_map = [k \in {} |-> None]
           /\ disk \in FileContents(env)
           /\ db = disk
           /\ jar = NoCookies
           /\ reqs = <<>>
           /\ resps = <<>>
           /\ pc = IF out.exc = "" THEN "idle" ELSE "failed"
           /\ lv = NoLocals
           /\ call = Call("__init__", env.name, FALSE, "",
                          IF args.cache_session THEN <<"cache_session">> ELSE <<>>,
                          out.exc, "", None, 0)

\* A client of the one service, with the default retries.
Init == Constructed({SERVICE_URL}, {0})

\* A second client object constructed with the same arguments after the
\* first: a new _session_id_map, a new connection (it sees what was
\* committed), a new requests session.
NewInstance ==
    /\ pc = "idle"
    /\ session_id_map' = [k \in {} |-> None]
    /\ db' = disk
    /\ jar' = NoCookies
    /\ reqs' = <<>>
    /\ resps' = <<>>
    /\ call' = Call("new_instance", "", FALSE, "", <<>>, "", "", None, 0)
    /\ UNCHANGED <<config, disk, pc, lv>>

\* value = client.session_id / client.openid_session_id
GetId ==
    /\ pc = "idle"
    /\ \E kind \in Kinds :
          LET out == get_id(session_id_map, db, config, KindBaseUrl(kind))
          IN  /\ session_id_map' = out.map
              /\ call' = Call("get_id", kind, FALSE, "", <<>>, "", "", out.result, 0)
    /\ reqs' = <<>>
    /\ resps' = <<>>
    /\ UNCHANGED <<config, db, disk, jar, pc, lv>>

\* client.session_id = token / client.openid_session_id = token
SetId ==
    /\ pc = "idle"
    /\ \E kind \in Kinds, token \in Tokens :
          LET out == set_id(session_id_map, db, disk, config, token, KindBaseUrl(kind))
          IN  /\ session_id_map' = out.map
              /\ db' = out.db
              /\ disk' = out.disk
              /\ call' = Call("set_id", kind, FALSE, "", <<token>>, out.exc, "", None, 0)
    /\ reqs' = <<>>
    /\ resps' = <<>>
    /\ UNCHANGED <<config, jar, pc, lv>>

\* del client.session_id / del client.openid_session_id
DelId ==
    /\ pc = "idle"
    /\ \E kind \in Kinds :
          LET out == del_id(session_id_map, db, config, KindBaseUrl(kind))
          IN  /\ session_id_map' = out.map
              /\ db' = out.db
              /\ call' = Call("del_id", kind, FALSE, "", <<>>, out.exc, "", None, 0)
    /\ reqs' = <<>>
    /\ resps' = <<>>
    /\ UNCHANGED <<config, disk, jar, pc, lv>>

\* Whether the call reaches the transport does not depend on the response.
\* client.send_request(method, auth=auth, verb=verb, **kwargs)
SendRequest ==
    /\ pc = "idle"
    /\ \E method \in Methods, auth \in BOOLEAN, verb \in Verbs, kwargs \in Kwargs :
          \E response \in
                IF send_request(session_id_map, db, config, method, auth, verb,
                                kwargs, PlainPage).sent = <<>>
                THEN {PlainPage} ELSE Responses :
             LET out == send_request(session_id_map, db, config, method, auth, verb,
                                     kwargs, response)
             IN  /\ session_id_map' = out.map
                 /\ reqs' = out.sent
                 /\ resps' = IF out.sent = <<>> THEN <<>> ELSE <<response>>
                 /\ jar' = IF out.sent = <<>> THEN jar ELSE Receive(jar, response)
                 /\ call' = Call("send_request", "", auth, verb, <<>>, out.exc,
                                 out.exc_url, None, 0)
    /\ UNCHANGED <<config, db, disk, pc, lv>>

\* client._authed_post(url, data=...) / client._authed_get(url, data=...),
\* as test() calls them.
AuthedCall ==
    /\ pc = "idle"
    /\ \E url \in Urls, verb \in {"GET", "POST"}, kwargs \in {{"data"}} :
          \E response \in
                IF authed_call(verb, url, kwargs, PlainPage).sent = <<>>
                THEN {PlainPage} ELSE Responses :
             LET out == authed_call(verb, url, kwargs, response)
             IN  /\ reqs' = out.sent
                 /\ resps' = IF out.sent = <<>> THEN <<>> ELSE <<response>>
                 /\ jar' = IF out.sent = <<>> THEN jar ELSE Receive(jar, response)
                 /\ call' = Call("authed_call", "", TRUE, verb, <<>>, out.exc,
                                 out.exc_url, None,
                                 IF out.returned THEN 1 ELSE 0)
    /\ UNCHANGED <<config, session_id_map, db, disk, pc, lv>>

\* The same calls when the transport fails (timeout, connection refused):
\* session.get / session.post raises, neither the decorator nor the method
\* catches it, and nothing reads self.retries.
AuthedCallTransportError ==
    /\ pc = "idle"
    /\ \E url \in Urls, verb \in {"GET", "POST"} :
          /\ reqs' = <<Request(verb, url, EmptyDict)>>
          /\ resps' = <<>>
          /\ call' = Call("authed_call", "", TRUE, verb, <<>>, "ConnectionError",
                          "", None, 0)
    /\ UNCHANGED <<config, session_id_map, db, disk, jar, pc, lv>>

\* One stretch of login: the request req, its response, and the code up to
\* the next request or the end of the call.
LoginStretch(req, response, out) ==
    /\ reqs' = Append(reqs, req)
    /\ resps' = Append(resps, response)
    /\ jar' = Receive(jar, response)
    /\ pc' = out.pc
    /\ lv' = out.lv
    /\ call' = [call EXCEPT !.exc = out.exc,
                            !.ret_resp = IF out.returns /\ req.verb = "POST"
                                         THEN Len(reqs) + 1 ELSE 0]
    /\ UNCHANGED <<config, session_id_map, db, disk>>

\* login ends with the exception the transport raised for a request.
LoginAbort(exc) ==
    /\ pc' = "idle"
    /\ lv' = NoLocals
    /\ call' = [call EXCEPT !.exc = exc]
    /\ UNCHANGED <<config, session_id_map, db, disk, jar, reqs, resps>>

\* client.login(username, password): response = self.session.get(self.login_url)
LoginGet ==
    /\ pc = "idle"
    /\ \E username \in LoginUsernames, password \in Passwords, response \in Responses :
          /\ reqs' = <<Request("GET", config.login_url, EmptyDict)>>
          /\ resps' = <<response>>
          /\ jar' = Receive(jar, response)
          /\ LET out == login_get(response, username, password)
             IN  /\ pc' = out.pc
                 /\ lv' = out.lv
                 /\ call' = Call("login", "", FALSE, "", <<username, password>>,
                                 out.exc, "", None, 0)
    /\ UNCHANGED <<config, session_id_map, db, disk>>

\* response = self.session.post(openid_url, data)
LoginPostOpenid ==
    /\ pc = "post_openid"
    /\ IF transport_accepts(lv.openid_url)
       THEN \E response \in Responses :
               LoginStretch(Request("POST", lv.openid_url, lv.data), response,
                            login_openid(response, lv))
       ELSE LoginAbort("MissingSchema")

\* response = self.session.post(action, data), with the credentials
LoginPostCredentials ==
    /\ pc = "post_credentials"
    /\ IF transport_accepts(lv.action)
       THEN \E response \in Responses :
               LoginStretch(Request("POST", lv.action, lv.data), response,
                            login_credentials(response, lv))
       ELSE LoginAbort("MissingSchema")

\* response = self.session.post(action, data), the consent
LoginPostConsent ==
    /\ pc = "post_consent"
    /\ IF transport_accepts(lv.action)
       THEN \E response \in Responses :
               LoginStretch(Request("POST", lv.action, lv.data), response,
                            login_consent(response, lv))
       ELSE LoginAbort("MissingSchema")

\* response = self.session.post(service_url, data); return response
LoginPostCallback ==
    /\ pc = "post_callback"
    /\ IF transport_accepts(lv.action)
       THEN \E response \in Responses :
               LoginStretch(Request("POST", lv.action, lv.data), response,
                            login_callback(response, lv))
       ELSE LoginAbort("MissingSchema")

Next ==
    \/ GetId
    \/ SetId
    \/ DelId
    \/ NewInstance
    \/ SendRequest
    \/ AuthedCall
    \/ AuthedCallTransportError
    \/ LoginGet
    \/ LoginPostOpenid
    \/ LoginPostCredentials
    \/ LoginPostConsent
    \/ LoginPostCallback

Spec == Init /\ [][Next]_vars

\* login alone: it reads and writes nothing of the session-id cache, and the
\* client runs one call at a time.
NextLogin ==
    \/ LoginGet
    \/ LoginPostOpenid
    \/ LoginPostCredentials
    \/ LoginPostConsent
    \/ LoginPostCallback

LoginSpec == Init /\ [][NextLogin]_vars

\* The session-id cache alone, for clients of either service.
InitStore == Constructed(BaseUrls, {0})

NextStore ==
    \/ GetId
    \/ SetId
    \/ DelId
    \/ NewInstance

StoreSpec == InitStore /\ [][NextStore]_vars

\* The cache and the dispatcher, without login.
NextDispatch ==
    \/ GetId
    \/ SetId
    \/ DelId
    \/ NewInstance
    \/ SendRequest
    \/ AuthedCall
    \/ AuthedCallTransportError

DispatchSpec == Init /\ [][NextDispatch]_vars

\* The authenticated calls of clients constructed with each retries.
InitRetry == Constructed({SERVICE_URL}, Retries)

NextRetry ==
    \/ AuthedCall
    \/ AuthedCallTransportError

RetrySpec == InitRetry /\ [][NextRetry]_vars

\* The calls that reach the transport: the dispatcher and login.
NextSend ==
    \/ SendRequest
    \/ AuthedCall
    \/ AuthedCallTransportError
    \/ LoginGet
    \/ LoginPostOpenid
    \/ LoginPostCredentials
    \/ LoginPostConsent
    \/ LoginPostCallback

SendSpec == Init /\ [][NextSend]_vars

\* ------------------------------------------------------ properties
\* A call of login has ended (by returning or by an exception).
LoginEnded == call.op = "login" /\ pc = "idle"

\* The url is one of the identity provider's.
AtProvider(url) == startswith(url, Origin(IDP_URL))

\* C1: a login whose GET of the login url is answered without the marker makes
\* exactly one request, that GET, sends nothing to the identity provider, and
\* returns (None, without an exception).
C1_LoginIdempotent ==
    (call.op = "login" /\ Len(resps) >= 1 /\ ~resps[1].marker) =>
        /\ pc = "idle"
        /\ call.exc = ""
        /\ call.ret_resp = 0
        /\ Len(reqs) = 1
        /\ reqs[1] = Request("GET", config.login_url, EmptyDict)
        /\ \A i \in 1..Len(reqs) : ~AtProvider(reqs[i].url)

\* A login answered without the marker by a page that carries a form.
C1_Witness ==
    /\ LoginEnded
    /\ Len(resps) = 1
    /\ ~resps[1].marker
    /\ resps[1].forms # <<>>

\* The login in progress, or the last one, went past the marker test.
LoginPastMarker == call.op = "login" /\ Len(resps) >= 1 /\ resps[1].marker

\* The provider's first form asks for credentials.
ProviderAsksCredentials ==
    /\ Len(resps) >= 2
    /\ "username" \in DOMAIN parse_openid_login_form(resps[2]).inputs

\* The place of the consent POST among the requests of a login.
ConsentIndex == IF ProviderAsksCredentials THEN 4 ELSE 3

WithCredentials(fields) ==
    DictSet(DictSet(fields, "username", Str(call.args[1])),
            "password", Str(call.args[2]))

\* Request i of a login is the one the sequence prescribes, with the fields of
\* response i - 1.
RequestInOrder(i) ==
    IF i = 1
    THEN reqs[1] = Request("GET", config.login_url, EmptyDict)
    ELSE IF i = 2
    THEN reqs[2] = Request("POST", parse_service_form(resps[1]).action,
                           parse_service_form(resps[1]).inputs)
    ELSE IF i = 3 /\ ProviderAsksCredentials
    THEN /\ reqs[3].verb = "POST"
         /\ reqs[3].data = WithCredentials(parse_openid_login_form(resps[2]).inputs)
    ELSE IF i = ConsentIndex
    THEN /\ reqs[i].verb = "POST"
         /\ reqs[i].data =
               DictDel(parse_openid_login_form(resps[i - 1]).inputs, "decided_deny")
    ELSE /\ i = ConsentIndex + 1
         /\ reqs[i] = Request("POST", parse_service_form(resps[i - 1]).action,
                              parse_service_form(resps[i - 1]).inputs)

CarriesPassword(req) ==
    /\ "password" \in DOMAIN req.data
    /\ req.data["password"] = Str(call.args[2])

\* C2: past the marker, the requests of a login are, in this order, the GET of
\* the login url, the POST of the service's form to the provider, the POST of
\* the credentials, the POST of the consent and the POST of the callback form,
\* each POST with the fields of the response before it; the credentials POST
\* (the only request with the password) is made exactly when the provider's
\* first form has a username field, else that form is the consent form; and a
\* login that returns returns the response of the callback POST.
C2_LoginRequestOrder ==
    LoginPastMarker =>
        /\ Len(reqs) = Len(resps)
        /\ Len(reqs) <= ConsentIndex + 1
        /\ \A i \in 1..Len(reqs) : RequestInOrder(i)
        /\ \A i \in 1..Len(reqs) :
              CarriesPassword(reqs[i]) <=> (ProviderAsksCredentials /\ i = 3)
        /\ (pc = "idle" /\ call.exc = "") =>
              /\ Len(reqs) = ConsentIndex + 1
              /\ call.ret_resp = Len(resps)

\* A login that went through all five requests and returned.
C2_Witness ==
    /\ LoginEnded
    /\ call.exc = ""
    /\ Len(reqs) = 5
    /\ call.ret_resp = 5
    /\ ProviderAsksCredentials

\* What the Session Store returns for the service and for the provider.
StoredToken(kind) == get_id(session_id_map, db, config, KindBaseUrl(kind)).result

\* C3: after a login that went through the whole sequence and returned the
\* response of the callback POST, the Session Store holds the service-session
\* and the provider-session token: the session cookies of the jar.
C3_LoginStoresTokens ==
    (/\ LoginEnded
     /\ call.exc = ""
     /\ call.ret_resp # 0
     /\ {SESSION_NAME, OPENID_SESSION_NAME} \subseteq DOMAIN jar) =>
        /\ StoredToken("session_id") = Str(jar[SESSION_NAME])
        /\ StoredToken("openid_session_id") = Str(jar[OPENID_SESSION_NAME])

\* An authenticated send has ended: send_request with auth, or a call of
\* _authed_post / _authed_get.
AuthedSendEnded ==
    /\ pc = "idle"
    /\ call.op \in {"send_request", "authed_call"}
    /\ call.auth
    /\ call.verb \in {"GET", "POST"}

\* C4: an authenticated send whose response holds the marker fails with the
\* login-required error, which names the url of the response, and the response
\* is not returned.
C4_ExpiryDetected ==
    (AuthedSendEnded /\ Len(resps) = 1 /\ resps[1].marker) =>
        /\ call.exc = "LoginRequiredException"
        /\ call.exc_url = resps[1].url
        /\ call.ret_resp = 0

\* C5: a login never ends with a failure other than ProtocolError: a missing
\* form, action, attribute or decided_deny field is reported as ProtocolError.
C5_LoginFailsTyped ==
    LoginEnded => call.exc \in {"", "ProtocolError"}

\* C6: a send_request with verb GET or POST whose response does not hold the
\* marker returns the response the transport produced.
C6_SendReturnsResponse ==
    (/\ pc = "idle"
     /\ call.op = "send_request"
     /\ call.verb \in {"GET", "POST"}
     /\ \A i \in 1..Len(resps) : ~resps[i].marker) =>
        /\ Len(resps) = 1
        /\ call.exc = ""
        /\ call.ret_resp = 1

\* C7: a send_request without auth and with verb GET or POST hands exactly one
\* request with that verb to the transport, with no session token attached.
C7_PlainSendOneRequest ==
    (/\ pc = "idle"
     /\ call.op = "send_request"
     /\ ~call.auth
     /\ call.verb \in {"GET", "POST"}) =>
        /\ Len(reqs) = 1
        /\ reqs[1].verb = call.verb
        /\ reqs[1].cookies = EmptyDict

\* The tokens the Session Store holds, under their cookie names; an absent
\* token has no entry.
StoredCookies ==
    LET held == {kind \in Kinds : Truthy(StoredToken(kind))}
        name(kind) == IF kind = "session_id" THEN SESSION_NAME
                      ELSE OPENID_SESSION_NAME
    IN  [n \in {name(kind) : kind \in held} |->
            IF n = SESSION_NAME THEN StoredToken("session_id")
            ELSE StoredToken("openid_session_id")]

\* C8: a send_request with auth and verb GET or POST issues its request with
\* exactly the tokens the Session Store returns, an absent token left out, and
\* the dispatcher raises no error of its own.
C8_AuthedSendAttachesTokens ==
    (/\ pc = "idle"
     /\ call.op = "send_request"
     /\ call.auth
     /\ call.verb \in {"GET", "POST"}) =>
        /\ Len(reqs) = 1
        /\ reqs[1].verb = call.verb
        /\ reqs[1].cookies = StoredCookies
        /\ call.exc \in {"", "AuthError", "LoginRequiredException"}

\* C9: a send_request fails with the unsupported-verb error, and sends nothing,
\* exactly when its verb is neither GET nor POST.
C9_UnsupportedVerb ==
    (pc = "idle" /\ call.op = "send_request") =>
        /\ call.verb \notin {"GET", "POST"} =>
              (call.exc = "Exception: Unknown HTTP verb" /\ reqs = <<>>)
        /\ call.exc = "Exception: Unknown HTTP verb" =>
              call.verb \notin {"GET", "POST"}

\* C10: with persistence enabled and a username, after a set there is one
\* record on disk for (username, base_url), and that record and the in-memory
\* entry hold the token just set.
C10_Upsert ==
    (/\ call.op = "set_id"
     /\ config.cache_session
     /\ config.username # "") =>
        LET base_url == IF call.kind = "session_id" THEN config.base_url
                        ELSE FAS_OPENID
            pk == <<config.username, base_url>>
            key == session_id_key(base_url, config.username)
        IN  /\ pk \in DOMAIN disk
            /\ disk[pk] = call.args[1]
            /\ key \in DOMAIN session_id_map
            /\ session_id_map[key] = Str(call.args[1])

\* ------------------------------------------------------ the store, continued
\* The key and the primary key of a kind for this client.
KindUrl(kind) == IF kind = "session_id" THEN config.base_url ELSE FAS_OPENID
KindKey(kind) == session_id_key(KindUrl(kind), config.username)
KindPk(kind) == <<config.username, KindUrl(kind)>>

\* The in-memory entry of a kind (None when there is none) and its row in a
\* table ("" when there is none).
MapEntry(kind) ==
    IF KindKey(kind) \in DOMAIN session_id_map
    THEN session_id_map[KindKey(kind)] ELSE None
TableRow(table, kind) ==
    IF KindPk(kind) \in DOMAIN table THEN table[KindPk(kind)] ELSE ""

\* What the first get and the one after it return on a client whose memory is
\* m and whose connection sees table.
FirstGet(m, table, kind) == get_id(m, table, config, KindBaseUrl(kind))
SecondGet(m, table, kind) ==
    get_id(FirstGet(m, table, kind).map, table, config, KindBaseUrl(kind))

\* C11: with persistence enabled and a username, when a set of a token is
\* followed by a fresh client instance, the first get of that key on the fresh
\* instance returns that token as a string, and so does the second.
C11_RoundTrip ==
    [][\A kind \in Kinds, token \in Tokens :
          (/\ call.op = "set_id"
           /\ call.kind = kind
           /\ call.args = <<token>>
           /\ config.cache_session
           /\ config.username # ""
           /\ call'.op = "new_instance") =>
              /\ FirstGet(session_id_map', db', kind).result = Str(token)
              /\ SecondGet(session_id_map', db', kind).result = Str(token)]_vars

\* The other kind.
Other(kind) == IF kind = "session_id" THEN "openid_session_id" ELSE "session_id"

\* C12: a set or a delete of one kind leaves the other kind's entry in memory
\* and its row in the table (as seen and as committed) as they were; the
\* provider's kind is keyed by 'FAS_OPENID' whatever the base url; and after a
\* set, the get of that kind returns the token set and the get of the other
\* kind the token that was set for it.
C12_KeyIndependence ==
    [][\A kind \in Kinds :
          (call'.op \in {"set_id", "del_id"} /\ call'.kind = kind) =>
              /\ (KindKey(Other(kind)) \in DOMAIN session_id_map)' =
                    (KindKey(Other(kind)) \in DOMAIN session_id_map)
              /\ MapEntry(Other(kind))' = MapEntry(Other(kind))
              /\ TableRow(db, Other(kind))' = TableRow(db, Other(kind))
              /\ TableRow(disk, Other(kind))' = TableRow(disk, Other(kind))
              /\ KindKey("openid_session_id") = "FAS_OPENID:" \o config.username
              /\ KindKey("session_id") # KindKey("openid_session_id")
              /\ call'.op = "set_id" =>
                    /\ StoredToken(kind)' = Str(call'.args[1])
                    /\ (MapEntry(Other(kind)).tag = "str"
                        /\ Truthy(MapEntry(Other(kind)))) =>
                          StoredToken(Other(kind))' = MapEntry(Other(kind))]_vars

\* A client of the second service that was given a token of each kind, the
\* provider's first.
C12_Witness ==
    /\ config.base_url = OTHER_URL
    /\ config.username # ""
    /\ call.op = "set_id"
    /\ call.kind = "session_id"
    /\ MapEntry("session_id") = Str("tok1")
    /\ MapEntry("openid_session_id") = Str("tok2")

\* C13: a delete of a kind that has no entry in memory and no row in the
\* table ends without an exception and changes neither the memory nor the
\* table.
C13_DeleteAbsent ==
    [][\A kind \in Kinds :
          (/\ call'.op = "del_id"
           /\ call'.kind = kind
           /\ KindKey(kind) \notin DOMAIN session_id_map
           /\ KindPk(kind) \notin DOMAIN db
           /\ KindPk(kind) \notin DOMAIN disk) =>
              /\ call'.exc = ""
              /\ session_id_map' = session_id_map
              /\ db' = db
              /\ disk' = disk]_vars

\* C14: after a delete of a kind that was set before, the get of that kind
\* returns nothing on this client, and nothing on a fresh client instance that
\* opens the same file.
C14_DeleteDurable ==
    [][\A kind \in Kinds :
          (/\ call'.op = "del_id"
           /\ call'.kind = kind
           /\ call'.exc = ""
           /\ MapEntry(kind).tag = "str"
           /\ Truthy(MapEntry(kind))) =>
              /\ ~Truthy(FirstGet(session_id_map', db', kind).result)
              /\ ~Truthy(FirstGet([k \in {} |-> None], disk', kind).result)]_vars

\* The environment the client was constructed in, while the constructor is
\* the last call.
ConstructedIn == CHOOSE env \in Environments : env.name = call.kind

\* The directory cannot be created, or the file cannot be opened or initialised.
DiskFails(env) ==
    \/ ~env.isdir /\ ~env.makedirs_ok
    \/ ~env.connect_ok
    \/ ~env.exists /\ ~env.create_ok

\* C15: a client asked to cache sessions and constructed when the directory
\* cannot be created, or the file cannot be opened or initialised, is
\* constructed without an exception and has persistence disabled.
C15_DiskFailureResilience ==
    (/\ call.op = "__init__"
     /\ call.args = <<"cache_session">>
     /\ DiskFails(ConstructedIn)) =>
        /\ call.exc = ""
        /\ pc = "idle"
        /\ ~config.cache_session

\* C16: after an authenticated send that found the marker in the response
\* (it ended with LoginRequiredException or AuthError), the get of the service
\* kind returns nothing.
C16_RejectionInvalidates ==
    (/\ AuthedSendEnded
     /\ call.exc \in {"LoginRequiredException", "AuthError"}) =>
        ~Truthy(StoredToken("session_id"))

\* C17: on a client without a username no get, set or delete changes the
\* table, as seen or as committed, even with persistence enabled; no get returns
\* a row of it; a set reaches no cursor (it ends without an exception) and the
\* get after it returns the token from memory; a fresh client instance holds
\* nothing.
C17_AnonymousNotPersisted ==
    [][config.username = "" =>
          /\ db' = db
          /\ disk' = disk
          /\ call'.op = "get_id" => call'.ret.tag = "str"
          /\ \A kind \in Kinds :
                (call'.op = "set_id" /\ call'.kind = kind) =>
                    /\ call'.exc = ""
                    /\ StoredToken(kind)' = Str(call'.args[1])
          /\ call'.op = "new_instance" =>
                \A kind \in Kinds : ~Truthy(StoredToken(kind)')]_vars

\* An anonymous client with persistence enabled, on a file that holds rows,
\* after a set.
C17_Witness ==
    /\ config.username = ""
    /\ config.cache_session
    /\ DOMAIN disk # {}
    /\ call.op = "set_id"
    /\ StoredToken(call.kind) = Str(call.args[1])

\* C18: an authenticated call that ends with the transport's error was
\* attempted once more than the retries the client was constructed with, and
\* with negative retries no call ends with it.
C18_RetryPolicy ==
    (/\ call.op = "authed_call"
     /\ call.exc = "ConnectionError") =>
        /\ config.retries >= 0
        /\ Len(reqs) = 1 + config.retries

\* The consent POST of a login was issued.
ConsentPosted == LoginPastMarker /\ Len(reqs) >= ConsentIndex

\* The <input> children of the form the consent POST answers.
ConsentChildren == Head(resps[ConsentIndex - 1].forms).inputs

\* C19: the consent POST has no 'decided_deny' field; it has, with its value,
\* every hidden field and the 'decided_allow' button of the form it answers,
\* and no field that is not a named input of that form.
C19_ConsentExcludesDeny ==
    ConsentPosted =>
        LET data == reqs[ConsentIndex].data
            children == ConsentChildren
            Kept(child) ==
                /\ "name" \in DOMAIN child
                /\ "type" \in DOMAIN child
                /\ child["type"] = "hidden" \/ child["name"] = "decided_allow"
        IN  /\ "decided_deny" \notin DOMAIN data
            /\ \A i \in 1..Len(children) :
                  Kept(children[i]) =>
                      /\ children[i]["name"] \in DOMAIN data
                      /\ data[children[i]["name"]] = Str(children[i]["value"])
            /\ \A n \in DOMAIN data :
                  \E i \in 1..Len(children) :
                      /\ "name" \in DOMAIN children[i]
                      /\ children[i]["name"] = n

\* A consent POST with the allow button and the hidden field of a form that
\* also had the deny button.
C19_Witness ==
    /\ ConsentPosted
    /\ \E i \in 1..Len(ConsentChildren) :
          /\ "name" \in DOMAIN ConsentChildren[i]
          /\ ConsentChildren[i]["name"] = "decided_deny"
    /\ {"decided_allow", "openid.mode"} \subseteq DOMAIN reqs[ConsentIndex].data

\* The url the next request of the login in progress goes to.
NextTarget == IF pc = "post_openid" THEN lv.openid_url ELSE lv.action

\* C20: the url the next request of a login goes to is the action of the form
\* in the last response, resolved against the url of that response.
C20_RelativeActionResolution ==
    (call.op = "login" /\ pc # "idle") =>
        LET page == resps[Len(resps)]
        IN  NextTarget = urljoin(page.url, Head(page.forms).attrs["action"])

\* A call of send_request or of _authed_post / _authed_get is the last call.
DispatcherCall == call.op \in {"send_request", "authed_call"}

====
